---- MODULE Spec2Model ----
(***************************************************************************)
(* Model of the APBA binary decoders:                                      *)
(*   scripts/analysis/parse_apba_binary.py    APBAPlayerParser             *)
(*   scripts/analysis/parse_apba_outcomes.py  APBAOutcomeParser            *)
(*                                                                         *)
(* Bytes are integers 0..255, a bytes object is a sequence of bytes, and a *)
(* Python str is the sequence of its code points.  Python indexes from 0,  *)
(* TLA+ sequences from 1: byte i of the source is element i+1 here.        *)
(***************************************************************************)
EXTENDS Integers, Sequences, FiniteSets, TLC

VARIABLES
    \* APBAPlayerParser instance and one analyze_structure activation
    data,          \* content of the PLAYERS.DAT file (bytes)
    players,       \* self.players
    offset,        \* local offset of analyze_structure
    record_num,    \* local record_num of analyze_structure
    pc,            \* "idle" | "loop" | "done": position in parse_file
    returned,      \* value of each completed parse_file call, at its return
    \* one parse_player_record call on a slice of its own
    d_record,      \* the argument `record`
    d_player,      \* its return value
    d_pc,          \* "ready" | "done"
    \* APBAOutcomeParser instance and one parse_tables activation
    num_tbl,       \* content of B3EHNUM.TBL
    num_msg,       \* content of B3EHNUM.MSG
    main_tbl,      \* content of B3EHMSG.TBL
    main_msg,      \* content of B3EHMSG.MSG
    outcomes,      \* self.outcomes
    t_offset,      \* local offset of the running table parse
    outcome_index, \* local outcome_index of the running table parse
    table,         \* local numeric_outcomes / main_outcomes of the running parse
    remaining,     \* iterations left of `for i in range(max_outcomes)`
    o_pc,          \* "idle" | "numeric" | "between" | "main" | "done"
    tables_returned, \* value of each completed parse_tables call, at its return
    \* one extract_message call on arguments of its own
    m_data,        \* the argument `data`
    m_offset,      \* the argument `offset`
    m_max_len,     \* the argument `max_len`
    m_text,        \* its return value
    m_pc           \* "ready" | "done"

scan_vars == <<data, players, offset, record_num, pc, returned>>
dec_vars == <<d_record, d_player, d_pc>>
out_vars == <<num_tbl, num_msg, main_tbl, main_msg, outcomes, t_offset,
              outcome_index, table, remaining, o_pc, tables_returned>>
msg_vars == <<m_data, m_offset, m_max_len, m_text, m_pc>>
vars == <<scan_vars, dec_vars, out_vars, msg_vars>>

----------------------------------------------------------------------------
(* Python built-ins used by the decoders *)

\* The value None.
None == [none |-> TRUE]

Min(a, b) == IF a < b THEN a ELSE b

\* s[a:b] for 0 <= a <= b: the slice is clipped to the sequence, never an error.
Slice(s, a, b) == SubSeq(s, a + 1, Min(b, Len(s)))

\* bytes.decode('ascii', errors='ignore'): bytes 0x80..0xFF are dropped, every
\* byte 0x00..0x7F (control bytes included) becomes the code point of its value.
IsAscii(b) == b < 128
decode_ascii_ignore(bs) == SelectSeq(bs, IsAscii)

\* str.isspace for the code points below 128: \t \n \v \f \r, 0x1C..0x1F, space.
IsSpace(c) == c \in {9, 10, 11, 12, 13, 28, 29, 30, 31, 32}

\* str.isprintable for the code points below 128.
IsPrintable(c) == c >= 32 /\ c <= 126

lstrip(s) ==
    LET drop[t \in Seq(Nat)] ==
            IF t # <<>> /\ IsSpace(Head(t)) THEN drop[Tail(t)] ELSE t
    IN  drop[s]

rstrip(s) ==
    LET drop[t \in Seq(Nat)] ==
            IF t # <<>> /\ IsSpace(t[Len(t)]) THEN drop[SubSeq(t, 1, Len(t) - 1)] ELSE t
    IN  drop[s]

\* str.strip()
strip(s) == rstrip(lstrip(s))

\* The separator of pos_string.split(' ').
SplitSep == 32

\* Index of the first separator in s, 0 if there is none.
FindSep(s, i) ==
    LET find[a \in Seq(Nat) \X Nat] ==
            IF a[2] > Len(a[1]) THEN 0
            ELSE IF a[1][a[2]] = SplitSep THEN a[2] ELSE find[<<a[1], a[2] + 1>>]
    IN  find[<<s, i>>]

\* s.split(' '): the pieces between single separators, empty pieces included.
split(s) ==
    LET cut[t \in Seq(Nat)] ==
            LET k == FindSep(t, 1)
            IN  IF k = 0 THEN <<t>>
                ELSE <<SubSeq(t, 1, k - 1)>> \o cut[SubSeq(t, k + 1, Len(t))]
    IN  cut[s]

NonEmpty(p) == p # <<>>

----------------------------------------------------------------------------
(* APBAPlayerParser.parse_player_record *)

RECORD_SIZE == 146

\* The literals 'UNK', '0', 'R' and ''.
DefaultPosition == <<85, 78, 75>>
DefaultGrade == <<48>>
DefaultBats_Left == <<76>>
DefaultBats == <<82>>
DefaultCard == <<48>>
EmptyStr == <<>>

ValidNameLen_OffByOne(n) == n > 0 /\ n <= 20

\* The name-length test `len > 0 and len < 20`.
ValidNameLen(n) == n > 0 /\ n < 20

\* The subscripts record[i] evaluated inside the try block; the slices
\* record[a:b] never raise.
SubscriptOffsets == {0, 16} \cup (32..37) \cup (48..127)

\* An IndexError inside the try block: a subscript at or past the end.
TryBodyRaises(record) == \E i \in SubscriptOffsets : i >= Len(record)

\* parts = [p for p in pos_string.split(' ') if p]
descriptor_parts(pos_string) == SelectSeq(split(pos_string), NonEmpty)

parse_player_record(record) ==
    IF Len(record) < RECORD_SIZE THEN None
    ELSE IF TryBodyRaises(record) THEN None          \* except Exception: return None
    ELSE
    LET last_name_len == record[0 + 1]
        last_name == strip(decode_ascii_ignore(Slice(record, 1, 1 + 15)))
        first_name_len == record[16 + 1]
        first_name ==
            IF ValidNameLen(first_name_len)
            THEN strip(decode_ascii_ignore(Slice(record, 17, 17 + 15)))
            ELSE EmptyStr
        pos_string == strip(decode_ascii_ignore(Slice(record, 134, 146)))
        parts == descriptor_parts(pos_string)
        bats == IF Len(parts) >= 3 THEN parts[3] ELSE DefaultBats
    IN  IF ~ValidNameLen(last_name_len) THEN None    \* Invalid record
        ELSE IF last_name = EmptyStr THEN None       \* Skip records with no name
        ELSE [ last_name |-> last_name,
               first_name |-> first_name,
               position |-> IF Len(parts) >= 1 THEN parts[1] ELSE DefaultPosition,
               bats |-> bats,
               card_number |-> IF Len(parts) >= 4 THEN parts[4] ELSE DefaultCard,
               grade |-> IF Len(parts) >= 2 THEN parts[2] ELSE DefaultGrade,
               throws |-> bats,
               raw_ratings |-> [ byte_0x20 |-> record[32 + 1],
                                 byte_0x21 |-> record[33 + 1],
                                 byte_0x22 |-> record[34 + 1],
                                 byte_0x23 |-> record[35 + 1],
                                 byte_0x24 |-> record[36 + 1],
                                 byte_0x25 |-> record[37 + 1] ],
               batting_chart_raw |-> [i \in 1..80 |-> record[48 + i]],
               position_string |-> pos_string ]

----------------------------------------------------------------------------
(* Input records: a 146-byte record assembled from its fields *)

Fill(n, b) == [i \in 1..n |-> b]
Pad(s, n) == s \o Fill(n - Len(s), 32)

\* Contents of a 15-byte name field.
NameLEIBOLD == Pad(<<76, 69, 73, 66, 79, 76, 68>>, 15)          \* "LEIBOLD"
NameBlank == Fill(15, 32)                                       \* all spaces
NameControl == Pad(<<65, 66, 1, 67, 68>>, 15)                   \* "AB\x01CD"
NameNonAscii == Pad(<<201, 77, 73, 76, 69>>, 15)                \* "\xC9MILE"
NameEdges == Pad(<<9, 79, 39, 78, 69, 73, 76, 31>>, 15)         \* "\tO'NEIL\x1F"
NameHigh == Fill(15, 128)                                       \* all 0x80
NameNemo == Pad(<<78, 101, 109, 111>>, 15)                      \* "Nemo"

\* Contents of the 12-byte descriptor region.
DescFull == Pad(<<79, 70, 32, 51, 32, 76, 32, 48, 55>>, 12)     \* "OF 3 L 07"
DescOne == Pad(<<80>>, 12)                                      \* "P"
DescBlank == Fill(12, 32)
DescTabs == Pad(<<79, 70, 9, 51, 32, 76, 10, 48, 55>>, 12)      \* "OF\t3 L\n07"
DescTwo == Pad(<<49, 66, 32, 32, 49, 50>>, 12)                  \* "1B  12"
DescFive == Pad(<<67, 32, 53, 32, 82, 32, 49, 50, 32, 88>>, 12) \* "C 5 R 12 X"
DescThree == Pad(<<80, 10, 32, 49, 50, 32, 82>>, 12)            \* "P\n 12 R"

\* Bytes 0x20..0x85: ratings, chart and the bytes before the descriptor.
Middle == [i \in 1..102 |-> (i * 7) % 256]

MakeRecord(llen, lname, flen, fname, desc) ==
    <<llen>> \o lname \o <<flen>> \o fname \o Middle \o desc

LastLenBytes == {0, 1, 7, 19, 20, 255}
LastNameFields == {NameLEIBOLD, NameBlank, NameControl, NameNonAscii, NameEdges, NameHigh}
FirstLenBytes == {0, 4, 20}
DescFields == {DescFull, DescOne, DescBlank, DescTabs, DescTwo, DescFive, DescThree}

\* Every 146-byte record the decoder is tried on.
FullRecords ==
    { MakeRecord(l, n, f, NameNemo, d) :
        l \in LastLenBytes, n \in LastNameFields, f \in FirstLenBytes, d \in DescFields }

\* What follows a record in the slice data[offset:offset+200], or cuts it short.
Trailer == Fill(54, 76)
DecoderInputs ==
    FullRecords
    \cup { r \o Trailer : r \in FullRecords }
    \cup { SubSeq(r, 1, n) : r \in { MakeRecord(7, NameLEIBOLD, 4, NameNemo, d) : d \in DescFields },
                             n \in {0, 1, 17, 38, 128, 145} }

----------------------------------------------------------------------------
(* States in which a component is not running *)

ScanIdle ==
    /\ data = <<>>
    /\ players = <<>>
    /\ offset = 0
    /\ record_num = 0
    /\ pc = "idle"
    /\ returned = <<>>

DecoderIdle ==
    /\ d_record = <<>>
    /\ d_player = None
    /\ d_pc = "done"

MessageIdle ==
    /\ m_data = <<>>
    /\ m_offset = 0
    /\ m_max_len = 0
    /\ m_text = <<>>
    /\ m_pc = "done"

OutcomeIdle ==
    /\ num_tbl = <<>>
    /\ num_msg = <<>>
    /\ main_tbl = <<>>
    /\ main_msg = <<>>
    /\ outcomes = <<>>
    /\ t_offset = 0
    /\ outcome_index = 0
    /\ table = <<>>
    /\ remaining = 0
    /\ o_pc = "idle"
    /\ tables_returned = <<>>

----------------------------------------------------------------------------
(* The record decoder on its own: one call of parse_player_record *)

DecodeInit ==
    /\ d_record \in DecoderInputs
    /\ d_player = None
    /\ d_pc = "ready"
    /\ ScanIdle
    /\ OutcomeIdle
    /\ MessageIdle

Decode ==
    /\ d_pc = "ready"
    /\ d_player' = parse_player_record(d_record)
    /\ d_pc' = "done"
    /\ UNCHANGED <<d_record, scan_vars, out_vars, msg_vars>>

DecodeNext == Decode

DecodeSpec == DecodeInit /\ [][DecodeNext]_vars

----------------------------------------------------------------------------
(* APBAPlayerParser.parse_file / analyze_structure: the player-file scan *)

\* Most records in a generated file, and most parse_file calls on one parser.
MaxRecords == 2
MaxRuns == 2

\* The record stride `offset += 146`, the bound of the safety check
\* `offset + 150 > len(data)` and the slice width of data[offset:offset+200].
Stride == 146
SafetyBytes == 150
SliceWidth == 200

\* The records the generated files are made of: accepted and rejected ones.
ScanRecords ==
    { MakeRecord(7, NameLEIBOLD, 4, NameNemo, DescFull),
      MakeRecord(0, NameLEIBOLD, 4, NameNemo, DescFull),
      MakeRecord(5, NameControl, 0, NameNemo, DescTabs),
      MakeRecord(9, NameBlank, 4, NameNemo, DescOne),
      MakeRecord(6, NameEdges, 20, NameNemo, DescTwo) }

\* Bytes after the last whole record: the start of one more valid record.
TailLens == {0, 3, 4, 145}
TailOf(n) == SubSeq(MakeRecord(4, NameNemo, 7, NameLEIBOLD, DescFive), 1, n)

RECURSIVE Concat(_)
Concat(ss) == IF ss = <<>> THEN <<>> ELSE Head(ss) \o Concat(Tail(ss))

ScanBuffers ==
    { Concat(rs) \o TailOf(n) :
        rs \in UNION { [1..k -> ScanRecords] : k \in 0..MaxRecords }, n \in TailLens }

\* A variant that also prints player['name'], a key no record has.
PrintedKeys_WithName ==
    {"last_name", "first_name", "position_string", "position", "grade", "bats",
     "throws", "card_number", "name"}

\* The keys the loop body reads of an accepted record when it prints it.
PrintedKeys ==
    {"last_name", "first_name", "position_string", "position", "grade", "bats",
     "throws", "card_number"}

\* Only the first records are printed: `if record_num <= 10`.
PrintLimit == 10

\* The loop body raises outside parse_player_record: the record is one of the
\* first PrintLimit accepted (n is record_num after its increment) and a
\* printed key is missing.
ScanBodyRaises(player, n) ==
    player # None /\ n <= PrintLimit /\ ~(PrintedKeys \subseteq DOMAIN player)

LoopContinues_NoSafetyCheck(off, buf) == off < Len(buf)

\* `while offset < len(data)` followed by the safety check of the body.
LoopContinues(off, buf) == off < Len(buf) /\ ~(off + SafetyBytes > Len(buf))

ScanInit ==
    /\ data \in ScanBuffers
    /\ players = <<>>
    /\ offset = 0
    /\ record_num = 0
    /\ pc = "idle"
    /\ returned = <<>>
    /\ DecoderIdle
    /\ OutcomeIdle
    /\ MessageIdle

\* parse_file is called: the file is read and analyze_structure starts.
ParseFile ==
    /\ pc = "idle"
    /\ Len(returned) < MaxRuns
    /\ offset' = 0
    /\ record_num' = 0
    /\ pc' = "loop"
    /\ UNCHANGED <<data, players, returned, dec_vars, out_vars, msg_vars>>

\* The iteration with a rejected record handled like an exception.
TryRecord_ResyncOnReject ==
    /\ pc = "loop"
    /\ LoopContinues(offset, data)
    /\ LET player == parse_player_record(Slice(data, offset, offset + SliceWidth))
       IN  /\ players' = IF player # None THEN Append(players, player) ELSE players
           /\ record_num' = IF player # None THEN record_num + 1 ELSE record_num
           /\ offset' = IF player # None THEN offset + Stride ELSE offset + 1
    /\ UNCHANGED <<data, pc, returned, dec_vars, out_vars, msg_vars>>

\* The iteration with an accepted record put in front of the list.
TryRecord_Prepend ==
    /\ pc = "loop"
    /\ LoopContinues(offset, data)
    /\ LET player == parse_player_record(Slice(data, offset, offset + SliceWidth))
       IN  /\ players' = IF player # None THEN <<player>> \o players ELSE players
           /\ record_num' = IF player # None THEN record_num + 1 ELSE record_num
           /\ offset' = offset + Stride
    /\ UNCHANGED <<data, pc, returned, dec_vars, out_vars, msg_vars>>

\* The iteration with the cursor advanced only after an accepted record.
TryRecord_StuckOnReject ==
    /\ pc = "loop"
    /\ LoopContinues(offset, data)
    /\ LET player == parse_player_record(Slice(data, offset, offset + SliceWidth))
       IN  /\ players' = IF player # None THEN Append(players, player) ELSE players
           /\ record_num' = IF player # None THEN record_num + 1 ELSE record_num
           /\ offset' = IF player # None THEN offset + Stride ELSE offset
    /\ UNCHANGED <<data, pc, returned, dec_vars, out_vars, msg_vars>>

\* One iteration of the while loop that reaches the try block.
TryRecord ==
    /\ pc = "loop"
    /\ LoopContinues(offset, data)
    /\ LET player == parse_player_record(Slice(data, offset, offset + SliceWidth))
       IN  IF ScanBodyRaises(player, record_num + 1)
           THEN \* except Exception: the record was appended, then offset += 1
                /\ players' = Append(players, player)
                /\ record_num' = record_num + 1
                /\ offset' = offset + 1
           ELSE /\ players' = IF player # None THEN Append(players, player) ELSE players
                /\ record_num' = IF player # None THEN record_num + 1 ELSE record_num
                /\ offset' = offset + Stride
    /\ UNCHANGED <<data, pc, returned, dec_vars, out_vars, msg_vars>>

\* The while condition fails: analyze_structure ends, parse_file returns.
WhileExit ==
    /\ pc = "loop"
    /\ ~(offset < Len(data))
    /\ returned' = Append(returned, players)
    /\ pc' = "idle"
    /\ UNCHANGED <<data, players, offset, record_num, dec_vars, out_vars, msg_vars>>

\* The safety check breaks out of the loop: the same end.
SafetyBreak ==
    /\ pc = "loop"
    /\ offset < Len(data)
    /\ offset + SafetyBytes > Len(data)
    /\ returned' = Append(returned, players)
    /\ pc' = "idle"
    /\ UNCHANGED <<data, players, offset, record_num, dec_vars, out_vars, msg_vars>>

Next == ParseFile \/ TryRecord \/ WhileExit \/ SafetyBreak

Init == ScanInit

Spec == Init /\ [][Next]_vars

\* The scan is straight-line sequential code: once parse_file is called, the
\* loop takes its next step until it ends.
ScanRuns == TryRecord \/ WhileExit \/ SafetyBreak
FairSpec == Init /\ [][Next]_vars /\ WF_vars(ScanRuns)

----------------------------------------------------------------------------
(* APBAOutcomeParser: extract_message and the two table parses *)

\* The pointer read as 16 bits ('<H') instead of 32.
unpack_H(b) == <<b[1] + 256 * b[2], 0>>

\* struct.unpack('<I', b)[0] of four bytes, kept as two 16-bit limbs <<lo, hi>>
\* (value = hi * 65536 + lo) so that 0xFFFFFFFF stays representable.
unpack_I(b) == <<b[1] + 256 * b[2], b[3] + 256 * b[4]>>

\* value == 0xFFFFFFFF
IsSentinel(v) == v[1] = 65535 /\ v[2] = 65535

\* value < n, for a length n below 2^31
U32Less(v, n) == v[2] < 32768 /\ v[2] * 65536 + v[1] < n

\* The integer of a value below 2^31.
U32Int(v) == v[2] * 65536 + v[1]

\* `while end < min(offset + max_len, len(data)) and data[end] != 0: end += 1`:
\* the loop leaves end at the first index from its start that is the limit or
\* holds a zero byte (stated without recursion: the loop runs up to max_len
\* times).
ScanEnd(bytes, end, limit) ==
    IF end >= limit THEN end
    ELSE LET stops == {e \in end..limit : e = limit \/ bytes[e + 1] = 0}
         IN  CHOOSE e \in stops : \A f \in stops : e <= f

\* `c.isprintable() or c == ' '`
KeptChar(c) == IsPrintable(c) \/ c = 32

\* The scan bounded by the end of the blob only, max_len ignored.
extract_message_unbounded(bytes, off, max_len) ==
    IF off >= Len(bytes) THEN <<>>
    ELSE LET end == ScanEnd(bytes, off, Len(bytes))
             text == decode_ascii_ignore(Slice(bytes, off, end))
         IN  strip(SelectSeq(text, KeptChar))

extract_message(bytes, off, max_len) ==
    IF off >= Len(bytes) THEN <<>>
    ELSE LET end == ScanEnd(bytes, off, Min(off + max_len, Len(bytes)))
             text == decode_ascii_ignore(Slice(bytes, off, end))
         IN  strip(SelectSeq(text, KeptChar))

\* Header sizes, slot width, entry cap and the max_len of each call.
NumericHeader == 32
MainHeader == 16
SlotSize == 4
MaxOutcomes == 200
NumericMaxLen == 200
MainMaxLen == 100

\* The entry stored for a code.
Entry(code, value, msg_text) ==
    [code |-> code, offset |-> U32Int(value), message |-> msg_text]

\* dict[key] = value
DictSet(d, key, value) ==
    [k \in DOMAIN d \cup {key} |-> IF k = key THEN value ELSE d[k]]

\* `if msg_text:` of the numeric parse.
NumericKeeps(msg_text) == msg_text # <<>>

\* `if msg_text and len(msg_text) > 2:` of the main parse.
MainKeeps(msg_text) == msg_text # <<>> /\ Len(msg_text) > 2

\* The body of the numeric loop for one pointer value: the dict afterwards.
numeric_slot(d, code, value, blob) ==
    IF IsSentinel(value) THEN d
    ELSE IF U32Less(value, Len(blob))
         THEN LET msg_text == extract_message(blob, U32Int(value), NumericMaxLen)
              IN  IF NumericKeeps(msg_text)
                  THEN DictSet(d, code, Entry(code, value, msg_text)) ELSE d
         ELSE d

\* The body of the main loop for one pointer value: the dict afterwards.
main_slot(d, code, value, blob) ==
    IF U32Less(value, Len(blob))
    THEN LET msg_text == extract_message(blob, U32Int(value), MainMaxLen)
         IN  IF MainKeeps(msg_text)
             THEN DictSet(d, code, Entry(code, value, msg_text)) ELSE d
    ELSE d

\* max_outcomes = min(200, (len(tbl_data) - offset) // 4)
max_outcomes(tbl) == Min(MaxOutcomes, (Len(tbl) - MainHeader) \div SlotSize)

\* Most pointer slots in a generated table, most parse_tables calls on a parser.
MaxSlots == 3
MaxTableRuns == 2

\* The message blobs: "Single\0Hi\0\0 A\x01b\x80c \0Out at first", and none.
Blob ==
    <<83, 105, 110, 103, 108, 101, 0, 72, 105, 0, 0, 32, 65, 1, 98, 128, 99, 32, 0,
      79, 117, 116, 32, 97, 116, 32, 102, 105, 114, 115, 116>>
Blobs == {Blob, <<>>}

\* Pointer slots: the sentinel, len(Blob), 0x00010000, and offsets of the
\* messages "Single", "Hi", "" and "Abc" (stored as " A\x01b\x80c ").
Pointers ==
    { <<255, 255, 255, 255>>, <<31, 0, 0, 0>>, <<0, 0, 1, 0>>,
      <<0, 0, 0, 0>>, <<7, 0, 0, 0>>, <<9, 0, 0, 0>>, <<11, 0, 0, 0>> }

\* A table header: four bytes, the signature 'MTaN', zeros.
Header(n) == <<1, 0, 0, 0, 77, 84, 97, 78>> \o Fill(n - 8, 0)

\* Bytes after the last whole slot.
SlotTails == {<<>>, <<7, 0, 0>>}

\* Tables that end inside their header.
ShortLens == {0, 3, 10, 18}

\* A table with two slots more than the entry cap of the main parse: the
\* sentinel and pointers to "Single", "Hi" and "Abc", over and over.
LongSlots ==
    [i \in 1..(MaxOutcomes + 2) |->
        CASE i % 4 = 0 -> <<255, 255, 255, 255>>
          [] i % 4 = 1 -> <<0, 0, 0, 0>>
          [] i % 4 = 2 -> <<7, 0, 0, 0>>
          [] OTHER     -> <<11, 0, 0, 0>>]

\* The bytes of LongSlots, slot after slot.
LongSlotBytes ==
    [j \in 1..(SlotSize * (MaxOutcomes + 2)) |->
        LongSlots[((j - 1) \div SlotSize) + 1][((j - 1) % SlotSize) + 1]]

OutcomeInit ==
    /\ \/ \E ps \in UNION { [1..k -> Pointers] : k \in 0..MaxSlots }, tl \in SlotTails :
             /\ num_tbl = Header(NumericHeader) \o Concat(ps) \o tl
             /\ main_tbl = Header(MainHeader) \o Concat(ps) \o tl
       \/ \E n \in ShortLens :
             /\ num_tbl = SubSeq(Header(NumericHeader), 1, n)
             /\ main_tbl = SubSeq(Header(NumericHeader), 1, n)
       \/ /\ num_tbl = Header(NumericHeader) \o LongSlotBytes
          /\ main_tbl = Header(MainHeader) \o LongSlotBytes
    /\ num_msg \in Blobs
    /\ main_msg = num_msg
    /\ outcomes = <<>>
    /\ t_offset = 0
    /\ outcome_index = 0
    /\ table = <<>>
    /\ remaining = 0
    /\ o_pc = "idle"
    /\ tables_returned = <<>>
    /\ ScanIdle
    /\ DecoderIdle
    /\ MessageIdle

\* parse_tables is called and parse_numeric_table reaches its loop.
ParseTables ==
    /\ o_pc = "idle"
    /\ Len(tables_returned) < MaxTableRuns
    /\ t_offset' = NumericHeader
    /\ outcome_index' = 0
    /\ table' = <<>>
    /\ o_pc' = "numeric"
    /\ UNCHANGED <<num_tbl, num_msg, main_tbl, main_msg, outcomes, remaining,
                   tables_returned, scan_vars, dec_vars, msg_vars>>

\* One iteration of `while offset < len(tbl_data) - 4`.
NumericStep ==
    /\ o_pc = "numeric"
    /\ t_offset < Len(num_tbl) - SlotSize
    /\ LET value == unpack_I(Slice(num_tbl, t_offset, t_offset + SlotSize))
       IN  table' = numeric_slot(table, outcome_index, value, num_msg)
    /\ outcome_index' = outcome_index + 1
    /\ t_offset' = t_offset + SlotSize
    /\ UNCHANGED <<num_tbl, num_msg, main_tbl, main_msg, outcomes, remaining, o_pc,
                   tables_returned, scan_vars, dec_vars, msg_vars>>

\* The numeric loop ends: self.outcomes['numeric'] = numeric_outcomes.
NumericEnd ==
    /\ o_pc = "numeric"
    /\ ~(t_offset < Len(num_tbl) - SlotSize)
    /\ outcomes' = DictSet(outcomes, "numeric", table)
    /\ o_pc' = "between"
    /\ UNCHANGED <<num_tbl, num_msg, main_tbl, main_msg, t_offset, outcome_index,
                   table, remaining, tables_returned, scan_vars, dec_vars, msg_vars>>

\* parse_main_outcome_table reaches its loop.
MainStart ==
    /\ o_pc = "between"
    /\ t_offset' = MainHeader
    /\ outcome_index' = 0
    /\ table' = <<>>
    /\ remaining' = IF max_outcomes(main_tbl) > 0 THEN max_outcomes(main_tbl) ELSE 0  \* range(n), n <= 0, is empty
    /\ o_pc' = "main"
    /\ UNCHANGED <<num_tbl, num_msg, main_tbl, main_msg, outcomes, tables_returned,
                   scan_vars, dec_vars, msg_vars>>

\* The iteration with the code advanced only when an entry was stored.
MainStep_RenumberOnSkip ==
    /\ o_pc = "main"
    /\ remaining > 0
    /\ LET msg_offset == unpack_I(Slice(main_tbl, t_offset, t_offset + SlotSize))
           after == main_slot(table, outcome_index, msg_offset, main_msg)
       IN  /\ table' = after
           /\ outcome_index' = IF after # table THEN outcome_index + 1 ELSE outcome_index
    /\ t_offset' = t_offset + SlotSize
    /\ remaining' = remaining - 1
    /\ UNCHANGED <<num_tbl, num_msg, main_tbl, main_msg, outcomes, o_pc,
                   tables_returned, scan_vars, dec_vars, msg_vars>>

\* One iteration of `for i in range(max_outcomes)`.
MainStep ==
    /\ o_pc = "main"
    /\ remaining > 0
    /\ LET msg_offset == unpack_I(Slice(main_tbl, t_offset, t_offset + SlotSize))
       IN  table' = main_slot(table, outcome_index, msg_offset, main_msg)
    /\ outcome_index' = outcome_index + 1
    /\ t_offset' = t_offset + SlotSize
    /\ remaining' = remaining - 1
    /\ UNCHANGED <<num_tbl, num_msg, main_tbl, main_msg, outcomes, o_pc,
                   tables_returned, scan_vars, dec_vars, msg_vars>>

\* The main loop ends: self.outcomes['main'] = main_outcomes, and parse_tables
\* returns self.outcomes.
MainEnd ==
    /\ o_pc = "main"
    /\ remaining = 0
    /\ outcomes' = DictSet(outcomes, "main", table)
    /\ tables_returned' = Append(tables_returned, outcomes')
    /\ o_pc' = "idle"
    /\ UNCHANGED <<num_tbl, num_msg, main_tbl, main_msg, t_offset, outcome_index,
                   table, remaining, scan_vars, dec_vars, msg_vars>>

OutcomeNext ==
    ParseTables \/ NumericStep \/ NumericEnd \/ MainStart \/ MainStep \/ MainEnd

OutcomeSpec == OutcomeInit /\ [][OutcomeNext]_vars

----------------------------------------------------------------------------
(* The message resolver on its own: one call of extract_message *)

\* Largest small max_len tried, besides the two the table parses pass.
MaxMsgLen == 6

\* "ABCDEFGHIJ": a blob without a zero byte.
BlobNoZero == <<65, 66, 67, 68, 69, 70, 71, 72, 73, 74>>

\* "  \x01a\x80 b\0cd": spaces, a control byte and a non-ASCII byte around text.
BlobNoise == <<32, 32, 1, 97, 128, 32, 98, 0, 99, 100>>

MessageBlobs == {Blob, BlobNoZero, BlobNoise, <<>>}

MessageInit ==
    /\ m_data \in MessageBlobs
    /\ m_offset \in 0..(Len(m_data) + 1)
    /\ m_max_len \in (0..MaxMsgLen) \cup {MainMaxLen, NumericMaxLen}
    /\ m_text = <<>>
    /\ m_pc = "ready"
    /\ ScanIdle
    /\ DecoderIdle
    /\ OutcomeIdle

Resolve ==
    /\ m_pc = "ready"
    /\ m_text' = extract_message(m_data, m_offset, m_max_len)
    /\ m_pc' = "done"
    /\ UNCHANGED <<m_data, m_offset, m_max_len, scan_vars, dec_vars, out_vars>>

MessageNext == Resolve

MessageSpec == MessageInit /\ [][MessageNext]_vars

----------------------------------------------------------------------------
(* Properties of the player-file scan, checked under Spec *)

\* The records the decoder accepts among the first n stride-aligned slices
\* [146*k, 146*k + 146) of buf, in offset order.
RECURSIVE AcceptedOf(_, _)
AcceptedOf(buf, n) ==
    IF n = 0 THEN <<>>
    ELSE LET r == parse_player_record(Slice(buf, 146 * (n - 1), 146 * n))
         IN  AcceptedOf(buf, n - 1) \o (IF r = None THEN <<>> ELSE <<r>>)

\* The number of stride-aligned slices that lie entirely inside buf.
WholeSlices(buf) == Len(buf) \div 146

\* self.players when the running (or the last completed) scan began.
PlayersBefore ==
    LET done == IF pc = "loop" THEN Len(returned) ELSE Len(returned) - 1
    IN  IF done >= 1 THEN returned[done] ELSE <<>>

\* C1: the scan forwards every stride-aligned slice that lies entirely inside
\* the buffer, so the first scan of a file returns exactly the records the
\* decoder accepts among all its whole slices, the last one included.
C1_EveryWholeSliceDecoded ==
    Len(returned) >= 1 => returned[1] = AcceptedOf(data, WholeSlices(data))

\* C2: a rejected slice neither aborts the scan nor moves the cursor off the
\* stride grid: the cursor is always a multiple of 146, the records added by
\* the scan so far are exactly the accepted ones among the slices before the
\* cursor (each decided by its own content), and the scan ends only where the
\* loop guard ends it.
C2_FaultIsolation ==
    /\ offset % 146 = 0
    /\ players = PlayersBefore \o AcceptedOf(data, offset \div 146)
    /\ (pc = "idle" /\ returned # <<>>) =>
          (offset >= Len(data) \/ offset + 150 > Len(data))

\* The slice at index 0 was rejected and the slice at index 1 was decoded and
\* emitted afterwards.
C2_Witness ==
    /\ pc = "loop"
    /\ returned = <<>>
    /\ offset = 292
    /\ parse_player_record(Slice(data, 0, 146)) = None
    /\ Len(players) = 1
    /\ players[1] = parse_player_record(Slice(data, 146, 292))

\* C3: running the scan twice on the same parser instance over the same file
\* returns the same records both times.
C3_SecondRunSameOutput ==
    Len(returned) >= 2 => returned[2] = returned[1]

\* The outcome-table half of the same statement, checked under OutcomeSpec:
\* every parse_tables call on one parser returns the same mapping.
OutcomeRunsAgree ==
    \A i \in 1..Len(tables_returned) : tables_returned[i] = tables_returned[1]

\* C4: for a buffer shorter than one stride the scan yields no record; the
\* loop ends before its first decode, so the cursor stays at 0.
C4_ShortBufferEmpty ==
    Len(data) < 146 =>
        /\ players = <<>>
        /\ \A i \in 1..Len(returned) : returned[i] = <<>>
        /\ offset = 0

\* A scan of a 145-byte buffer that begins like a valid record has returned.
C4_Witness ==
    /\ Len(data) = 145
    /\ data[1] \in 1..19
    /\ strip(decode_ascii_ignore(Slice(data, 1, 16))) # <<>>
    /\ Len(returned) >= 1

----------------------------------------------------------------------------
(* Order, cursor grid and termination of the player-file scan *)

\* The records the running (or last completed) scan has added to self.players.
RunOutput == SubSeq(players, Len(PlayersBefore) + 1, Len(players))

\* The indices, ascending, of the stride-aligned slices among the first n of
\* buf that the decoder accepts.
RECURSIVE AcceptedIndices(_, _)
AcceptedIndices(buf, n) ==
    IF n = 0 THEN <<>>
    ELSE LET r == parse_player_record(Slice(buf, 146 * (n - 1), 146 * n))
         IN  AcceptedIndices(buf, n - 1) \o (IF r = None THEN <<>> ELSE <<n - 1>>)

\* C13: the records a scan emits are in input offset order: the i-th record
\* of the scan is the decode of the i-th accepted slice in ascending offset,
\* every step that emits appends one record, the decode of the slice at the
\* cursor, at the end of the list and moves the cursor forward, so no slice
\* contributes twice within one scan.
C13_EmittedInOffsetOrder ==
    /\ [](LET idx == AcceptedIndices(data, offset \div 146)
          IN  /\ Len(RunOutput) = Len(idx)
              /\ \A i \in 1..Len(idx) :
                    RunOutput[i] =
                        parse_player_record(Slice(data, 146 * idx[i], 146 * idx[i] + 146))
              /\ \A i \in 1..(Len(idx) - 1) : idx[i] < idx[i + 1])
    /\ [][\/ players' = players
          \/ /\ pc = "loop"
             /\ players' =
                   Append(players, parse_player_record(Slice(data, offset, offset + 146)))
             /\ offset' > offset]_vars

\* A first scan has emitted two different records, the one from offset 0
\* before the one from offset 146.
C13_Witness ==
    /\ returned = <<>>
    /\ Len(players) = 2
    /\ players[1] # players[2]
    /\ players[1] = parse_player_record(Slice(data, 0, 146))
    /\ players[2] = parse_player_record(Slice(data, 146, 292))

\* C15: the cursor is always a non-negative multiple of 146: whenever the
\* loop is about to decode, the slice it hands over has at least 146 bytes,
\* nothing in the decoder's try block can raise on it, and the loop body does
\* not raise on the result, so the one-byte resynchronisation is never taken.
C15_CursorOnStrideGrid ==
    /\ offset >= 0
    /\ offset % 146 = 0
    /\ (pc = "loop" /\ offset < Len(data) /\ offset + 150 <= Len(data)) =>
          LET slice == Slice(data, offset, offset + 200)
          IN  /\ Len(slice) >= 146
              /\ ~TryBodyRaises(slice)
              /\ ~ScanBodyRaises(parse_player_record(slice), record_num + 1)

\* The loop stands at offset 146 after a rejected first slice and is about to
\* decode the second.
C15_Witness ==
    /\ pc = "loop"
    /\ returned = <<>>
    /\ offset = 146
    /\ players = <<>>
    /\ offset + 150 <= Len(data)

\* C16: the scan terminates: every loop iteration moves the cursor forward,
\* a scan that has been started ends, it ends only where fewer than the 150
\* bytes of the guard remain, and one scan of a buffer of L bytes adds at
\* most floor(L / 146) records.
C16_ScanTerminates ==
    /\ [][(pc = "loop" /\ pc' = "loop") => offset' > offset]_vars
    /\ [](Len(RunOutput) <= Len(data) \div 146)
    /\ []((pc = "idle" /\ returned # <<>>) => offset + 150 > Len(data))
    /\ (pc = "loop" ~> pc = "idle")

\* A scan of a buffer with two whole records has ended having added two
\* records, as many as floor(L / 146).
C16_Witness ==
    /\ pc = "idle"
    /\ Len(returned) = 1
    /\ Len(data) \div 146 = 2
    /\ Len(returned[1]) = 2

----------------------------------------------------------------------------
(* Properties of the record decoder, checked under DecodeSpec *)

Decoded == d_pc = "done"
Accepted == Decoded /\ d_player # None

\* The last-name field of a slice, decoded and trimmed.
TrimmedLastName(record) == strip(decode_ascii_ignore(Slice(record, 1, 16)))

\* The descriptor region of a slice, decoded and trimmed.
DescriptorText(record) == strip(decode_ascii_ignore(Slice(record, 134, 146)))

\* The maximal runs of characters other than the space 0x20, left to right.
RECURSIVE SpaceRuns(_, _)
SpaceRuns(s, cur) ==
    IF s = <<>> THEN (IF cur = <<>> THEN <<>> ELSE <<cur>>)
    ELSE IF Head(s) = 32
         THEN (IF cur = <<>> THEN <<>> ELSE <<cur>>) \o SpaceRuns(Tail(s), <<>>)
         ELSE SpaceRuns(Tail(s), Append(cur, Head(s)))

\* The maximal runs of characters that are not whitespace, left to right.
RECURSIVE WhitespaceRuns(_, _)
WhitespaceRuns(s, cur) ==
    IF s = <<>> THEN (IF cur = <<>> THEN <<>> ELSE <<cur>>)
    ELSE IF IsSpace(Head(s))
         THEN (IF cur = <<>> THEN <<>> ELSE <<cur>>) \o WhitespaceRuns(Tail(s), <<>>)
         ELSE WhitespaceRuns(Tail(s), Append(cur, Head(s)))

\* The four positional fields of a record that are taken from a token.
TokenFields(p, n) ==
    (IF n >= 1 THEN {p.position} ELSE {}) \cup (IF n >= 2 THEN {p.grade} ELSE {})
    \cup (IF n >= 3 THEN {p.bats} ELSE {}) \cup (IF n >= 4 THEN {p.card_number} ELSE {})

\* C5: the decoder rejects a slice exactly when the slice is shorter than 146
\* bytes, or its last-name length byte is outside 1..19, or its trimmed decoded
\* last name is empty; the first-name length byte and the descriptor region
\* never cause a rejection, and no returned record has an empty last_name.
C5_RejectIffStructural ==
    Decoded =>
        /\ (d_player = None) <=>
              \/ Len(d_record) < 146
              \/ d_record[1] \notin 1..19
              \/ TrimmedLastName(d_record) = <<>>
        /\ (d_player # None => d_player.last_name # <<>>)

\* A record with an out-of-range first-name length byte and a blank descriptor
\* region was accepted.
C5_Witness ==
    /\ Accepted
    /\ d_record[17] = 20
    /\ d_player.first_name = <<>>
    /\ d_player.position_string = <<>>

\* C6: for every accepted record last_name is the text of bytes [0x01, 0x10)
\* with every non-ASCII byte and every control byte dropped and the ends
\* trimmed, so it holds printable ASCII characters only.
C6_LastNamePrintable ==
    Accepted =>
        /\ d_player.last_name = strip(SelectSeq(Slice(d_record, 1, 16), IsPrintable))
        /\ \A i \in 1..Len(d_player.last_name) : IsPrintable(d_player.last_name[i])

\* C7: for every accepted record the tokens present in the descriptor region
\* are assigned in order to position, grade, bats and card_number, and each
\* field whose token is missing is "UNK", "0", "R" and "0" respectively.
C7_DefaultsAndPositions ==
    Accepted =>
        LET T == SpaceRuns(DescriptorText(d_record), <<>>)
        IN  /\ d_player.position = IF Len(T) >= 1 THEN T[1] ELSE <<85, 78, 75>>
            /\ d_player.grade = IF Len(T) >= 2 THEN T[2] ELSE <<48>>
            /\ d_player.bats = IF Len(T) >= 3 THEN T[3] ELSE <<82>>
            /\ d_player.card_number = IF Len(T) >= 4 THEN T[4] ELSE <<48>>

\* An accepted record whose descriptor region holds the single token "P".
C7_Witness ==
    /\ Accepted
    /\ d_player.position_string = <<80>>
    /\ d_player.position = <<80>>
    /\ d_player.grade = <<48>>
    /\ d_player.bats = <<82>>
    /\ d_player.card_number = <<48>>

\* C8, as stated: the descriptor region is split on any whitespace character,
\* empty tokens discarded, so no token assigned to a field contains a
\* whitespace character such as a tab or the newline 0x0A.
C8_SplitOnWhitespace ==
    Accepted =>
        LET W == WhitespaceRuns(DescriptorText(d_record), <<>>)
            n == Len(W)
        IN  /\ n >= 1 => d_player.position = W[1]
            /\ n >= 2 => d_player.grade = W[2]
            /\ n >= 3 => d_player.bats = W[3]
            /\ n >= 4 => d_player.card_number = W[4]
            /\ \A f \in TokenFields(d_player, n) : \A i \in 1..Len(f) : ~IsSpace(f[i])

\* What the decoder does with the descriptor instead: it splits on the space
\* character 0x20 only, so the fields are the first maximal runs of non-space
\* characters of the trimmed region and any other whitespace stays inside its
\* token.
DescriptorSplitsOnSpace ==
    Accepted =>
        LET T == SpaceRuns(DescriptorText(d_record), <<>>)
            n == Len(T)
        IN  /\ d_player.position_string = DescriptorText(d_record)
            /\ n >= 1 => d_player.position = T[1]
            /\ n >= 2 => d_player.grade = T[2]
            /\ n >= 3 => d_player.bats = T[3]
            /\ n >= 4 => d_player.card_number = T[4]
            /\ \A f \in TokenFields(d_player, n) :
                  f # <<>> /\ \A i \in 1..Len(f) : f[i] # 32

----------------------------------------------------------------------------
(* Properties of the outcome-table decode, checked under OutcomeSpec *)

\* The four bytes of pointer slot c of a table whose header has h bytes.
SlotBytes(tbl, h, c) == SubSeq(tbl, h + 4 * c + 1, h + 4 * c + 4)

\* The little-endian bytes of an integer 0 <= k < 2^31.
LittleEndian(k) ==
    <<k % 256, (k \div 256) % 256, (k \div 65536) % 256, k \div 16777216>>

\* The slot holds 0xFFFFFFFF.
SlotIsSentinel(b) == b = <<255, 255, 255, 255>>

\* The slot holds a value below n.
SlotBelow(b, n) == \E k \in 0..(n - 1) : b = LittleEndian(k)

\* The numeric and the main mapping: the one being built, else the stored one.
EmittedNumeric ==
    IF o_pc = "numeric" THEN table
    ELSE IF "numeric" \in DOMAIN outcomes THEN outcomes["numeric"] ELSE <<>>
EmittedMain ==
    IF o_pc = "main" THEN table
    ELSE IF "main" \in DOMAIN outcomes THEN outcomes["main"] ELSE <<>>

\* The codes whose slot each loop examines, from the loop bounds.
NumericCodes == {c \in 0..Len(num_tbl) : 32 + 4 * c < Len(num_tbl) - 4}
MainCodes == {c \in 0..199 : 16 + 4 * c + 4 <= Len(main_tbl)}

\* The text a slot below len(blob) points at, up to the first zero byte, when
\* it holds more than two characters after cleaning.
LongMessageAt(b, blob) ==
    \E k \in 0..(Len(blob) - 1) :
        b = LittleEndian(k) /\ Len(extract_message(blob, k, 100)) > 2

\* C9: in both configurations every emitted entry has a source offset below
\* len(blob) that is not the sentinel, i.e. a slot holding 0xFFFFFFFF or a
\* value >= len(blob) never produces an entry for its code; and such a slot
\* does not stop the decode: once a table is decoded, every examined slot that
\* points at a message of more than two characters has its entry.
C9_EmittedOffsetsInBlob ==
    /\ \A c \in DOMAIN EmittedNumeric :
          LET b == SlotBytes(num_tbl, 32, c)
          IN  /\ ~SlotIsSentinel(b)
              /\ SlotBelow(b, Len(num_msg))
              /\ b = LittleEndian(EmittedNumeric[c].offset)
    /\ \A c \in DOMAIN EmittedMain :
          LET b == SlotBytes(main_tbl, 16, c)
          IN  /\ ~SlotIsSentinel(b)
              /\ SlotBelow(b, Len(main_msg))
              /\ b = LittleEndian(EmittedMain[c].offset)
    /\ "numeric" \in DOMAIN outcomes =>
          \A c \in NumericCodes :
              LongMessageAt(SlotBytes(num_tbl, 32, c), num_msg)
                  => c \in DOMAIN outcomes["numeric"]
    /\ "main" \in DOMAIN outcomes =>
          \A c \in MainCodes :
              LongMessageAt(SlotBytes(main_tbl, 16, c), main_msg)
                  => c \in DOMAIN outcomes["main"]

\* Both tables were decoded with slot 0 the sentinel, slot 1 equal to
\* len(blob) and slot 2 a valid pointer: only code 2 has an entry.
C9_Witness ==
    /\ tables_returned # <<>>
    /\ num_msg # <<>>
    /\ Len(num_tbl) >= 32 + 12
    /\ Len(main_tbl) >= 16 + 12
    /\ SlotIsSentinel(SlotBytes(num_tbl, 32, 0))
    /\ SlotBytes(num_tbl, 32, 1) = LittleEndian(Len(num_msg))
    /\ SlotIsSentinel(SlotBytes(main_tbl, 16, 0))
    /\ SlotBytes(main_tbl, 16, 1) = LittleEndian(Len(main_msg))
    /\ DOMAIN outcomes["numeric"] = {2}
    /\ DOMAIN outcomes["main"] = {2}

\* C10: in both configurations an entry is emitted only if its message has
\* more than two characters.
C10_MessagesLongerThanTwo ==
    /\ \A c \in DOMAIN EmittedNumeric : Len(EmittedNumeric[c].message) > 2
    /\ \A c \in DOMAIN EmittedMain : Len(EmittedMain[c].message) > 2

\* The number of complete pointer slots of a table after a header of h bytes.
WholeSlotsAfter(tbl, h) == IF Len(tbl) >= h THEN (Len(tbl) - h) \div 4 ELSE 0

\* C11: each decode examines exactly the first min(max_entries, floor((len -
\* header_size) / 4)) complete slots (no cap for the numeric table, 200 for
\* the main one), the last slot of a table that ends on a slot boundary
\* included, and a table shorter than its header gives an empty mapping.
C11_ExaminesEveryWholeSlot ==
    /\ o_pc = "between" => outcome_index = WholeSlotsAfter(num_tbl, 32)
    /\ (o_pc = "idle" /\ tables_returned # <<>>) =>
          outcome_index = Min(200, WholeSlotsAfter(main_tbl, 16))
    /\ ("numeric" \in DOMAIN outcomes /\ Len(num_tbl) < 32) => outcomes["numeric"] = <<>>
    /\ ("main" \in DOMAIN outcomes /\ Len(main_tbl) < 16) => outcomes["main"] = <<>>

\* C14: the code of every emitted entry is the 0-based index of its pointer
\* slot counted from the header: the entry stored under key c has code c and
\* the little-endian value of slot c as its offset; a skipped slot consumes
\* its code too, so the running code is always the slot index of the cursor.
C14_CodeIsSlotIndex ==
    /\ \A c \in DOMAIN EmittedNumeric :
          /\ EmittedNumeric[c].code = c
          /\ c >= 0 /\ 32 + 4 * c + 4 <= Len(num_tbl)
          /\ SlotBytes(num_tbl, 32, c) = LittleEndian(EmittedNumeric[c].offset)
    /\ \A c \in DOMAIN EmittedMain :
          /\ EmittedMain[c].code = c
          /\ c >= 0 /\ 16 + 4 * c + 4 <= Len(main_tbl)
          /\ SlotBytes(main_tbl, 16, c) = LittleEndian(EmittedMain[c].offset)
    /\ o_pc = "numeric" => t_offset = 32 + 4 * outcome_index
    /\ o_pc = "main" => t_offset = 16 + 4 * outcome_index

\* Both tables were decoded with slot 0 pointing at an empty message, slot 1
\* at "Hi" and slot 2 at "Single": the main mapping holds code 2 alone, the
\* numeric one codes 1 and 2, neither renumbered.
C14_Witness ==
    /\ tables_returned # <<>>
    /\ Len(main_tbl) = 16 + 12 + 3
    /\ SlotBytes(main_tbl, 16, 0) = <<9, 0, 0, 0>>
    /\ SlotBytes(main_tbl, 16, 1) = <<7, 0, 0, 0>>
    /\ DOMAIN outcomes["main"] = {2}
    /\ outcomes["main"][2].code = 2
    /\ outcomes["main"][2].offset = 0
    /\ DOMAIN outcomes["numeric"] = {1, 2}
    /\ outcomes["numeric"][1].offset = 7

----------------------------------------------------------------------------
(* Properties of the message resolver, checked under MessageSpec *)

\* The end of the window [offset, min(offset + max_len, len(blob))).
WindowEnd == Min(m_offset + m_max_len, Len(m_data))

\* The index of the first zero byte inside the window, else the window's end.
FirstZero ==
    IF \E i \in m_offset..(WindowEnd - 1) : m_data[i + 1] = 0
    THEN CHOOSE i \in m_offset..(WindowEnd - 1) :
            m_data[i + 1] = 0 /\ \A j \in m_offset..(i - 1) : m_data[j + 1] # 0
    ELSE WindowEnd

\* The blob with every byte outside [m_offset, FirstZero) replaced by "Z",
\* and the byte at FirstZero, if there is one, by zero.
Masked ==
    [i \in 1..Len(m_data) |->
        IF i - 1 >= m_offset /\ i - 1 < FirstZero THEN m_data[i]
        ELSE IF i - 1 = FirstZero THEN 0 ELSE 90]

\* C12: for offset >= len(blob) the resolver returns empty text; otherwise the
\* text is built only from the bytes of the window that precede its first zero
\* byte (it is the cleaned, trimmed text of exactly those bytes, and is the
\* same when every other byte of the blob is overwritten), and it never has
\* more than max_len characters.
C12_ReadsOnlyItsWindow ==
    m_pc = "done" =>
        /\ m_offset >= Len(m_data) => m_text = <<>>
        /\ m_offset < Len(m_data) =>
              /\ m_text = strip(SelectSeq(SubSeq(m_data, m_offset + 1, FirstZero),
                                          IsPrintable))
              /\ m_text = extract_message(Masked, m_offset, m_max_len)
        /\ Len(m_text) <= m_max_len

\* A call whose window ends before any zero byte and before the blob's end:
\* "ABCDEFGHIJ" from offset 2 with max_len 3 gives "CDE".
C12_Witness ==
    /\ m_pc = "done"
    /\ m_data = <<65, 66, 67, 68, 69, 70, 71, 72, 73, 74>>
    /\ m_offset = 2
    /\ m_max_len = 3
    /\ m_text = <<67, 68, 69>>

====
